---- MODULE Spec2Model ----
(***************************************************************************)
(* A model of movie.py: the loading and normalisation of the TMDB records, *)
(* the TF-IDF / cosine-similarity engine, get_recommendations and the     *)
(* chatbot loop.                                                          *)
(*                                                                         *)
(* Strings are sequences of one-character strings, so that str.lower,     *)
(* str.replace(" ", ""), str.strip and ' '.join are computed character by *)
(* character.  Python values (the results of json.loads) are tagged       *)
(* records.  A call that may raise returns Ok(v) or Raise(exception).     *)
(***************************************************************************)
EXTENDS Integers, Sequences, FiniteSets, TLC

VARIABLES
    csv,              \* what read_csv + merge delivered (the input of a run)
    pc,               \* position of chatbot(): start, loaded, engine, loop, done, exit, crashed
    exc,              \* the uncaught exception that ended the run ("" if none)
    movie_data,       \* chatbot's movie_data: None or the prepared DataFrame (its rows)
    cosine_sim,       \* chatbot's cosine_sim: None or the similarity matrix
    indices,          \* chatbot's indices: None or the title -> row Series
    user_input,       \* chatbot's user_input: None before the first prompt
    recommendations,  \* chatbot's recommendations: None before the first call
    movie_indices,    \* get_recommendations' movie_indices in the last call (<<>> if it set none)
    output            \* what the last step printed

vars == <<csv, pc, exc, movie_data, cosine_sim, indices, user_input,
          recommendations, movie_indices, output>>

----------------------------------------------------------------------------
(* Bounds of the model and constants of the program *)

\* Largest number of rows of the merged table
MaxRows == 5

\* random.sample(..., 5)
SampleSize == 5

\* sim_scores[1:11]
SliceFrom == 1

SliceTo == 11

\* x[:3] of the cast
CastTop == 3

\* token_pattern of TfidfVectorizer, \w\w+: a token has at least two characters
MinTokenLen == 2

----------------------------------------------------------------------------
(* Python values *)

None == [none |-> TRUE]

Some(v) == [none |-> FALSE, v |-> v]

Ok(v) == [ok |-> TRUE, v |-> v]

Raise(e) == [ok |-> FALSE, exc |-> e]

PyStr(s) == [t |-> "str", s |-> s]

PyInt == [t |-> "int"]

PyNone == [t |-> "none"]

PyList(items) == [t |-> "list", items |-> items]

PyDict(d) == [t |-> "dict", d |-> d]

\* dict.get(key, default)
DictGet(obj, key, default) ==
    IF key \in DOMAIN obj.d THEN obj.d[key] ELSE default

----------------------------------------------------------------------------
(* Strings *)

UpperChars == <<"A", "B", "C", "D", "E", "F", "G", "H", "I", "Q", "T", "U", "X", "Z">>

LowerChars == <<"a", "b", "c", "d", "e", "f", "g", "h", "i", "q", "t", "u", "x", "z">>

\* str.lower of one character
LowerChar(c) ==
    IF \E i \in DOMAIN UpperChars : UpperChars[i] = c
    THEN LowerChars[CHOOSE i \in DOMAIN UpperChars : UpperChars[i] = c]
    ELSE c

\* str.lower
StrLower(s) == [i \in DOMAIN s |-> LowerChar(s[i])]

\* s.replace(" ", "")
RECURSIVE RemoveSpaces(_)
RemoveSpaces(s) ==
    IF s = <<>> THEN <<>>
    ELSE IF Head(s) = " " THEN RemoveSpaces(Tail(s))
    ELSE <<Head(s)>> \o RemoveSpaces(Tail(s))

\* str.strip
RECURSIVE StrStrip(_)
StrStrip(s) ==
    IF s = <<>> THEN <<>>
    ELSE IF Head(s) = " " THEN StrStrip(Tail(s))
    ELSE IF s[Len(s)] = " " THEN StrStrip(SubSeq(s, 1, Len(s) - 1))
    ELSE s

\* ' '.join(parts)
RECURSIVE JoinSpace(_)
JoinSpace(parts) ==
    IF parts = <<>> THEN <<>>
    ELSE IF Len(parts) = 1 THEN parts[1]
    ELSE parts[1] \o <<" ">> \o JoinSpace(Tail(parts))

----------------------------------------------------------------------------
(* load_and_prepare_data and its helpers *)

\* data.replace("'", '"') on the text of a cell: JSON text without an
\* apostrophe is unchanged, a single-quoted Python literal becomes JSON, and
\* JSON text with an apostrophe inside a string is broken by the replacement.
ReplaceQuotes(text) ==
    CASE text.form = "json" -> text
      [] text.form = "pyrepr" -> [text EXCEPT !.form = "json"]
      [] text.form = "apos" -> [text EXCEPT !.form = "garbage"]
      [] OTHER -> text

\* json.loads
JsonLoads(text) ==
    IF text.form = "json" THEN Ok(text.val) ELSE Raise("JSONDecodeError")

safe_json_loads(data) ==
    IF data.k = "nan" THEN Ok(PyList(<<>>))
    ELSE IF data.k = "num" THEN Raise("AttributeError")
    ELSE LET r == JsonLoads(ReplaceQuotes(data))
         IN  IF r.ok THEN r
             ELSE IF r.exc \in {"JSONDecodeError", "TypeError"} THEN Ok(PyList(<<>>))
             ELSE r

\* 'Director'
Director == <<"D", "i", "r", "e", "c", "t", "o", "r">>

\* the loop of get_director over crew_list.items from position i on
RECURSIVE DirectorFrom(_, _)
DirectorFrom(items, i) ==
    IF i > Len(items) THEN Ok(PyStr(<<>>))
    ELSE IF items[i].t # "dict" THEN Raise("AttributeError")
    ELSE IF LET job == DictGet(items[i], "job", PyNone)
            IN  job.t = "str" /\ job.s = Director
         THEN Ok(DictGet(items[i], "name", PyStr(<<>>)))
    ELSE DirectorFrom(items, i + 1)

get_director(crew_list) ==
    IF crew_list.t = "list" THEN DirectorFrom(crew_list.items, 1)
    ELSE Ok(PyStr(<<>>))

\* i['name']
ItemName(i) ==
    IF i.t # "dict" THEN Raise("TypeError")
    ELSE IF "name" \notin DOMAIN i.d THEN Raise("KeyError")
    ELSE Ok(i.d["name"])

\* [f(i) for i in items], where f may raise: the first exception ends it
RECURSIVE ListComp(_, _)
ListComp(F(_), items) ==
    IF items = <<>> THEN Ok(<<>>)
    ELSE LET h == F(Head(items))
         IN  IF ~h.ok THEN h
             ELSE LET r == ListComp(F, Tail(items))
                  IN  IF r.ok THEN Ok(<<h.v>> \o r.v) ELSE r

\* lambda x: [i['name'] for i in x] if isinstance(x, list) else []
NamesOf(x) ==
    IF x.t = "list"
    THEN LET r == ListComp(ItemName, x.items)
         IN  IF r.ok THEN Ok(PyList(r.v)) ELSE r
    ELSE Ok(PyList(<<>>))

\* x[:3]
FirstThree(items) == SubSeq(items, 1, IF Len(items) < CastTop THEN Len(items) ELSE CastTop)

\* lambda x: [i['name'] for i in x[:3]] if isinstance(x, list) else []
CastNamesOf(x) ==
    IF x.t = "list"
    THEN LET r == ListComp(ItemName, FirstThree(x.items))
         IN  IF r.ok THEN Ok(PyList(r.v)) ELSE r
    ELSE Ok(PyList(<<>>))

\* str.lower(i.replace(" ", ""))
CleanItem(i) ==
    IF i.t = "str" THEN Ok(PyStr(StrLower(RemoveSpaces(i.s))))
    ELSE Raise("AttributeError")

clean_data(x) ==
    IF x.t = "list"
    THEN LET r == ListComp(CleanItem, x.items)
         IN  IF r.ok THEN Ok(PyList(r.v)) ELSE r
    ELSE IF x.t = "str" THEN Ok(PyStr(StrLower(RemoveSpaces(x.s))))
    ELSE Ok(PyStr(<<>>))

\* the strings of a list of str
StrsOf(x) == [i \in DOMAIN x.items |-> x.items[i].s]

\* create_soup with the genres joined first instead of last
create_soup_GenresFirst(x) ==
    JoinSpace(StrsOf(x.genres)) \o <<" ">> \o JoinSpace(StrsOf(x.keywords))
        \o <<" ">> \o JoinSpace(StrsOf(x.cast)) \o <<" ">> \o x.director.s

create_soup(x) ==
    JoinSpace(StrsOf(x.keywords)) \o <<" ">> \o JoinSpace(StrsOf(x.cast))
        \o <<" ">> \o x.director.s \o <<" ">> \o JoinSpace(StrsOf(x.genres))

\* df[dst] = df[src].apply(F): F is applied row by row, the first exception
\* ends the call
RECURSIVE Apply(_, _, _, _)
Apply(F(_), df, src, dst) ==
    IF df = <<>> THEN Ok(<<>>)
    ELSE LET h == F(Head(df)[src])
         IN  IF ~h.ok THEN h
             ELSE LET r == Apply(F, Tail(df), src, dst)
                      row == [c \in DOMAIN Head(df) \cup {dst} |->
                                 IF c = dst THEN h.v ELSE Head(df)[c]]
                  IN  IF r.ok THEN Ok(<<row>> \o r.v) ELSE r

\* continue with G(r.v) unless r is an exception
Then(r, G(_)) == IF r.ok THEN G(r.v) ELSE r

\* df['soup'] = df.apply(create_soup, axis=1)
WithSoup(df) ==
    [i \in DOMAIN df |->
        [c \in DOMAIN df[i] \cup {"soup"} |->
            IF c = "soup" THEN PyStr(create_soup(df[i])) ELSE df[i][c]]]

\* ['id', 'movie_id', 'tmdbId']
possible_movie_id_cols == <<"id", "movie_id", "tmdbId">>

\* the columns of movies_df.merge(credits_df, on='movie_id'): a column of both
\* tables other than the key gets the suffixes _x and _y
MergedColumns(movies_cols, credits_cols) ==
    {"movie_id"}
        \cup ((movies_cols \cup credits_cols) \ (movies_cols \cap credits_cols))
        \cup (IF "title" \in movies_cols \cap credits_cols THEN {"title_x", "title_y"} ELSE {})

\* ['movie_id', 'title_x', 'overview', 'genres', 'keywords', 'cast', 'crew']
features == {"movie_id", "title_x", "overview", "genres", "keywords", "cast", "crew"}

\* lines 38-50: parsing, director, names, cleaning, soup
Prepare(df) ==
    Then(Apply(safe_json_loads, df, "genres", "genres"), LAMBDA d1 :
    Then(Apply(safe_json_loads, d1, "keywords", "keywords"), LAMBDA d2 :
    Then(Apply(safe_json_loads, d2, "cast", "cast"), LAMBDA d3 :
    Then(Apply(safe_json_loads, d3, "crew", "crew"), LAMBDA d4 :
    Then(Apply(get_director, d4, "crew", "director"), LAMBDA d5 :
    Then(Apply(NamesOf, d5, "genres", "genres"), LAMBDA d6 :
    Then(Apply(NamesOf, d6, "keywords", "keywords"), LAMBDA d7 :
    Then(Apply(CastNamesOf, d7, "cast", "cast"), LAMBDA d8 :
    Then(Apply(clean_data, d8, "cast", "cast"), LAMBDA d9 :
    Then(Apply(clean_data, d9, "keywords", "keywords"), LAMBDA d10 :
    Then(Apply(clean_data, d10, "genres", "genres"), LAMBDA d11 :
    Then(Apply(clean_data, d11, "director", "director"), LAMBDA d12 :
    Ok(Some(WithSoup(d12)))))))))))))))

\* The result of load_and_prepare_data on the files `input`: Ok(None) for a
\* reported error, Ok(Some(df)) for the prepared table, Raise(e) for an
\* uncaught exception.
load_and_prepare_data(input) ==
    IF ~input.found THEN Ok(None)
    ELSE LET renamed ==
                 IF \E i \in DOMAIN possible_movie_id_cols :
                        possible_movie_id_cols[i] \in input.movies_cols
                 THEN (input.movies_cols \ {possible_movie_id_cols[
                          CHOOSE i \in DOMAIN possible_movie_id_cols :
                              /\ possible_movie_id_cols[i] \in input.movies_cols
                              /\ \A j \in 1..(i - 1) :
                                     possible_movie_id_cols[j] \notin input.movies_cols]})
                          \cup {"movie_id"}
                 ELSE {}
         IN  IF renamed = {} THEN Ok(None)
             ELSE IF "movie_id" \notin input.credits_cols THEN Ok(None)
             ELSE IF ~(features \subseteq MergedColumns(renamed, input.credits_cols))
                  THEN Raise("KeyError")
             ELSE Prepare(input.rows)

----------------------------------------------------------------------------
(* create_recommendation_engine: TfidfVectorizer, linear_kernel, indices *)

\* \w of the token pattern, over the characters of the model
IsWordChar(c) ==
    \E i \in DOMAIN UpperChars : c = UpperChars[i] \/ c = LowerChars[i]

\* the maximal runs of word characters of s, in order; cur is the run being read
RECURSIVE Runs(_, _)
Runs(s, cur) ==
    IF s = <<>> THEN (IF cur = <<>> THEN <<>> ELSE <<cur>>)
    ELSE IF IsWordChar(Head(s)) THEN Runs(Tail(s), Append(cur, Head(s)))
    ELSE (IF cur = <<>> THEN <<>> ELSE <<cur>>) \o Runs(Tail(s), <<>>)

\* the words of stop_words='english' that the characters of the model spell
StopWords == {<<"b", "e">>, <<"h", "e">>, <<"h", "a", "d">>}

\* keep the elements of a sequence that satisfy Keep
RECURSIVE Filter(_, _)
Filter(Keep(_), s) ==
    IF s = <<>> THEN <<>>
    ELSE IF Keep(Head(s)) THEN <<Head(s)>> \o Filter(Keep, Tail(s))
    ELSE Filter(Keep, Tail(s))

\* the analyzer of TfidfVectorizer(stop_words='english'): lowercase, runs of at
\* least two word characters, stop words removed
Tokenize(soup) ==
    Filter(LAMBDA w : Len(w) >= MinTokenLen /\ w \notin StopWords,
           Runs(StrLower(soup), <<>>))

\* how often token t occurs in the token sequence doc
RECURSIVE Count(_, _)
Count(doc, t) ==
    IF doc = <<>> THEN 0
    ELSE (IF Head(doc) = t THEN 1 ELSE 0) + Count(Tail(doc), t)

\* the sum of f[1] .. f[n]
RECURSIVE SumTo(_, _)
SumTo(f, n) == IF n = 0 THEN 0 ELSE f[n] + SumTo(f, n - 1)

\* the distinct elements of a sequence, in the order of their first occurrence
RECURSIVE Distinct(_, _)
Distinct(s, acc) ==
    IF s = <<>> THEN acc
    ELSE IF \E k \in DOMAIN acc : acc[k] = Head(s) THEN Distinct(Tail(s), acc)
    ELSE Distinct(Tail(s), Append(acc, Head(s)))

\* the concatenation of the sequences of a sequence
RECURSIVE Flatten(_)
Flatten(ss) == IF ss = <<>> THEN <<>> ELSE Head(ss) \o Flatten(Tail(ss))

\* 10 * ln(k) rounded, for k = 1..12
LnTenths == <<0, 7, 11, 14, 16, 18, 19, 21, 22, 23, 24, 25>>

\* resolution of the stored similarity scores
ScoreScale == 100

\* smooth idf of a token found in dfreq of n documents, in tenths:
\* ln((1 + n) / (1 + dfreq)) + 1
Idf(n, dfreq) == LnTenths[1 + n] - LnTenths[1 + dfreq] + 10

\* F(v) with v computed once and then handed over as a value (an argument
\* that is an expression is computed anew at every use)
Call(F(_), v) == CHOOSE r \in {F(x) : x \in {v}} : TRUE

\* vocabulary_ of the fitted vectorizer: the distinct tokens of the corpus
Vocabulary(docs) == Distinct(Flatten(docs), <<>>)

\* the tf-idf weights before normalisation: weights[i][c] is the count of
\* token c in document i times the idf of the token
Weights(docs) ==
    LET n == Len(docs)
        vocab == Call(LAMBDA d : Vocabulary(d), docs)
    IN  [i \in 1..n |-> [c \in 1..Len(vocab) |->
            Count(docs[i], vocab[c])
              * Idf(n, Cardinality({k \in 1..n : Count(docs[k], vocab[c]) > 0}))]]

\* the dot products of the weight vectors
Dots(w) ==
    [i \in 1..Len(w) |-> [j \in 1..Len(w) |->
        SumTo([c \in 1..Len(w[i]) |-> w[i][c] * w[j][c]], Len(w[i]))]]

\* linear_kernel of the L2-normalised vectors, from the dot products of the
\* vectors before normalisation.  An entry is stored in fixed point as
\* ScoreScale times the squared cosine, rounded down: squaring keeps the
\* order of the non-negative cosines, equal vectors get equal entries and a
\* zero vector gets 0 everywhere.
Kernel(dot) ==
    [i \in 1..Len(dot) |-> [j \in 1..Len(dot) |->
        IF dot[i][i] = 0 \/ dot[j][j] = 0 THEN 0
        ELSE (dot[i][j] * dot[i][j] * ScoreScale) \div (dot[i][i] * dot[j][j])]]

\* cosine_sim of lines 90-91 for the token sequences docs
CosineSim(docs) == Call(Kernel, Call(Dots, Call(Weights, docs)))

\* Series.drop_duplicates(): an entry is dropped when an earlier entry has the
\* same value (the values of this Series are the row labels)
drop_duplicates(series) ==
    LET keep == {k \in DOMAIN series :
                    \A j \in 1..(k - 1) : series[j].value # series[k].value}
        pos(m) == CHOOSE k \in keep : Cardinality({j \in keep : j < k}) = m - 1
    IN  [m \in 1..Cardinality(keep) |-> series[pos(m)]]

\* pd.Series(df.index, index=df['title']): rows are numbered from 1 here,
\* row r of the model is row r - 1 of the DataFrame
TitleSeries(df) == [r \in DOMAIN df |-> [label |-> df[r].title, value |-> r]]

\* Ok([cosine_sim, indices]), or the ValueError of fit_transform on an empty
\* vocabulary
create_recommendation_engine(df) ==
    LET docs == [r \in 1..Len(df) |-> Tokenize(df[r].soup.s)]
    IN  IF \A r \in DOMAIN docs : docs[r] = <<>> THEN Raise("ValueError")
        ELSE Ok([cosine_sim |-> CosineSim(docs),
                 indices |-> drop_duplicates(TitleSeries(df))])

----------------------------------------------------------------------------
(* get_recommendations *)

\* t in indices: membership in the index labels of the Series
InIndex(t, series) == \E k \in DOMAIN series : series[k].label = t

\* [t for t in indices.keys() if t.lower() == title.lower()]
MatchingTitles(title, series) ==
    Filter(LAMBDA t : StrLower(t) = StrLower(title),
           [k \in DOMAIN series |-> series[k].label])

\* indices[title]: the values stored under the label, in order; one value is
\* a scalar, several are a Series
Lookup(title, series) ==
    LET hits == Filter(LAMBDA e : e.label = title, series)
    IN  [k \in DOMAIN hits |-> hits[k].value]

\* the title get_recommendations looks up: title itself when it is a label,
\* else the first label equal to it up to case; None when there is none
ResolvedTitle(title, series) ==
    IF InIndex(title, series) THEN Some(title)
    ELSE Call(LAMBDA matching_titles :
                 IF matching_titles = <<>> THEN None ELSE Some(matching_titles[1]),
              MatchingTitles(title, series))

\* InsertDesc that puts x before the elements of equal score: an unstable sort
RECURSIVE InsertDesc_TiesFirst(_, _)
InsertDesc_TiesFirst(sorted, x) ==
    IF sorted = <<>> THEN <<x>>
    ELSE IF Head(sorted)[2] > x[2]
         THEN <<Head(sorted)>> \o InsertDesc_TiesFirst(Tail(sorted), x)
    ELSE <<x>> \o sorted

\* x is put behind every element of the descending list whose score is at
\* least its own
RECURSIVE InsertDesc(_, _)
InsertDesc(sorted, x) ==
    IF sorted = <<>> THEN <<x>>
    ELSE IF Head(sorted)[2] >= x[2] THEN <<Head(sorted)>> \o InsertDesc(Tail(sorted), x)
    ELSE <<x>> \o sorted

\* sorted(sim_scores, key=lambda x: x[1], reverse=True): a stable sort, equal
\* scores keep the order of the list
RECURSIVE SortedDesc(_, _)
SortedDesc(pairs, acc) ==
    IF pairs = <<>> THEN acc
    ELSE SortedDesc(Tail(pairs), InsertDesc(acc, Head(pairs)))

\* list(enumerate(cosine_sim[idx])) for a scalar idx
Enumerate(row) == [j \in DOMAIN row |-> <<j, row[j]>>]

\* sim_scores[1:11]
Slice(sorted) ==
    SubSeq(sorted, SliceFrom + 1, IF Len(sorted) < SliceTo THEN Len(sorted) ELSE SliceTo)

\* movie_indices of lines 104-107 for the scalar row idx
MovieIndices(idx, sim) ==
    Call(LAMBDA sim_scores : [k \in 1..Len(sim_scores) |-> sim_scores[k][1]],
         Slice(SortedDesc(Enumerate(sim[idx]), <<>>)))

\* the message without the title
NotFoundMessage_NoTitle(title) ==
    <<"Sorry, the movie was not found in our database.">>

\* f"Sorry, the movie '{title}' was not found in our database."
NotFoundMessage(title) ==
    <<"Sorry, the movie '">> \o title \o <<"' was not found in our database.">>

\* The call get_recommendations(title, sim, series, df): the value returned
\* (ret: a str when the title is not found, else the list of titles) and the
\* local movie_indices (<<>> when the call sets none), or the ValueError of
\* sorted() on the rows of a 2-D array when indices[title] is a Series of
\* several rows.
RecommendationsCall(title, sim, series, df) ==
    Call(LAMBDA resolved :
        IF resolved.none
        THEN Ok([ret |-> PyStr(NotFoundMessage(title)), movie_indices |-> <<>>])
        ELSE Call(LAMBDA idx :
                 IF Len(idx) > 1 THEN Raise("ValueError")
                 ELSE Call(LAMBDA rows :
                          Ok([ret |-> PyList([k \in 1..Len(rows) |-> df[rows[k]].title]),
                              movie_indices |-> rows]),
                          MovieIndices(idx[1], sim)),
                 Lookup(resolved.v, series)),
        ResolvedTitle(title, series))

\* what get_recommendations returns or raises
get_recommendations(title, sim, series, df) ==
    Call(LAMBDA c : IF c.ok THEN Ok(c.v.ret) ELSE c,
         RecommendationsCall(title, sim, series, df))

----------------------------------------------------------------------------
(* The inputs of a run: the two CSV files and the lines typed at the prompt *)

Nan == [k |-> "nan"]

Num == [k |-> "num"]

Text(form, val) == [k |-> "text", form |-> form, val |-> val]

\* {"name": n}
Named(n) == PyDict([name |-> PyStr(n)])

\* {"job": j, "name": n}
Crew(j, n) == PyDict([job |-> PyStr(j), name |-> PyStr(n)])

Producer == <<"P", "r", "o", "d", "u", "c", "e", "r">>

Row(title, genres, keywords, cast, crew) ==
    [title |-> title, genres |-> genres, keywords |-> keywords, cast |-> cast, crew |-> crew]

\* A well-formed record: four cast entries, a producer before two directors,
\* names with capitals and spaces.  Soup: "ace ca cb cc db ga".
RecAb ==
    Row(<<"A", "b">>,
        Text("json", PyList(<<Named(<<"G", "a">>)>>)),
        Text("json", PyList(<<Named(<<"A", "c", " ", "e">>)>>)),
        Text("json", PyList(<<Named(<<"C", "a">>), Named(<<"C", " ", "b">>),
                              Named(<<"C", "c">>), Named(<<"C", "d">>)>>)),
        Text("json", PyList(<<Crew(Producer, <<"D", "a">>), Crew(Director, <<"D", " ", "b">>),
                              Crew(Director, <<"D", "c">>)>>)))

\* Another film with the same soup, written as single-quoted literals; its
\* title differs from RecAb's only in case.
RecaB ==
    Row(<<"a", "B">>,
        Text("pyrepr", PyList(<<Named(<<"g", "a">>)>>)),
        Text("pyrepr", PyList(<<Named(<<"A", "C", "E">>)>>)),
        Text("pyrepr", PyList(<<Named(<<"c", "a">>), Named(<<"c", "b">>), Named(<<"c", "c">>)>>)),
        Text("pyrepr", PyList(<<Crew(Director, <<"d", "b">>)>>)))

\* Every field degrades: NaN, text that is not JSON, JSON broken by the quote
\* replacement, JSON that is not a list.  Soup: "   ".
RecCd ==
    Row(<<"C", "d">>,
        Nan,
        Text("garbage", PyNone),
        Text("apos", PyList(<<Named(<<"C", "a">>)>>)),
        Text("json", PyDict([job |-> PyStr(Director), name |-> PyStr(<<"D", "b">>)])))

\* Shares a keyword with RecAb; a cast that parses to a number; a crew with a
\* producer, an entry without job and a director whose name is not a string;
\* one genre that is a stop word.  Soup: "ace   be gb".
RecEf ==
    Row(<<"E", "f">>,
        Text("json", PyList(<<Named(<<"B", "e">>), Named(<<"G", "b">>)>>)),
        Text("json", PyList(<<Named(<<"A", "c", "e">>)>>)),
        Text("json", PyInt),
        Text("json", PyList(<<Crew(Producer, <<"D", "a">>), PyDict([name |-> PyStr(<<"D", "c">>)]),
                              PyDict([job |-> PyStr(Director), name |-> PyInt])>>)))

\* A genre entry without 'name'
RecNoName ==
    Row(<<"I", "a">>,
        Text("json", PyList(<<PyDict([id |-> PyInt])>>)),
        Text("json", PyList(<<Named(<<"A", "c", "e">>)>>)),
        Nan,
        Nan)

\* A keywords cell that pandas read as a number
RecNumCell ==
    Row(<<"I", "b">>,
        Text("json", PyList(<<Named(<<"G", "a">>)>>)),
        Num,
        Nan,
        Nan)

Catalogue == {RecAb, RecaB, RecCd, RecEf, RecNoName, RecNumCell}

\* the sequences over S of length n
SeqsOfLen(S, n) == [1..n -> S]

MoviesCols == {"id", "title", "overview", "genres", "keywords"}

CreditsCols == {"movie_id", "title", "cast", "crew"}

Files(found, movies_cols, credits_cols, rows) ==
    [found |-> found, movies_cols |-> movies_cols, credits_cols |-> credits_cols,
     rows |-> rows]

\* The files a run may find: missing, without an id column, without the
\* movie_id column, without a title in the credits, with the id column named
\* tmdbId, or complete with 1 to MaxRows merged rows.
FileStates ==
    {Files(FALSE, {}, {}, <<>>),
     Files(TRUE, MoviesCols \ {"id"}, CreditsCols, <<>>),
     Files(TRUE, MoviesCols, CreditsCols \ {"movie_id"}, <<>>),
     Files(TRUE, MoviesCols, CreditsCols \ {"title"}, <<RecAb>>),
     Files(TRUE, (MoviesCols \ {"id"}) \cup {"tmdbId"}, CreditsCols, <<RecAb, RecEf>>)}
        \cup {Files(TRUE, MoviesCols, CreditsCols, rows) :
                  rows \in UNION {SeqsOfLen(Catalogue, n) : n \in 1..MaxRows}}

Quit == <<"q", "u", "i", "t">>

Exit == <<"e", "x", "i", "t">>

\* The lines typed at the prompt
Lines ==
    {<<" ">>, Quit, <<" ", "E", "x", "i", "t", " ">>,
     <<"a", "B">>, <<"A", "B">>, <<" ", "C", "d">>, <<"Z", "z">>}

----------------------------------------------------------------------------
(* chatbot *)

Init ==
    /\ csv = None
    /\ pc = "start"
    /\ exc = ""
    /\ movie_data = None
    /\ cosine_sim = None
    /\ indices = None
    /\ user_input = None
    /\ recommendations = None
    /\ movie_indices = <<>>
    /\ output = ""

\* lines 117-120: movie_data = load_and_prepare_data()
LoadData ==
    /\ pc = "start"
    /\ \E input \in FileStates : \E r \in {load_and_prepare_data(input)} :
              /\ csv' = Some(input)
              /\ IF ~r.ok
                 THEN /\ pc' = "crashed"
                      /\ exc' = r.exc
                      /\ UNCHANGED <<movie_data, output>>
                 ELSE IF r.v.none
                 THEN /\ pc' = "exit"
                      /\ output' = "Could not load data. Exiting chatbot."
                      /\ UNCHANGED <<movie_data, exc>>
                 ELSE /\ pc' = "loaded"
                      /\ movie_data' = r.v
                      /\ UNCHANGED <<exc, output>>
    /\ UNCHANGED <<cosine_sim, indices, user_input, recommendations, movie_indices>>

\* line 122: cosine_sim, indices = create_recommendation_engine(movie_data)
CreateEngine ==
    /\ pc = "loaded"
    /\ \E r \in {create_recommendation_engine(movie_data.v)} :
           IF r.ok
           THEN /\ cosine_sim' = Some(r.v.cosine_sim)
                /\ indices' = Some(r.v.indices)
                /\ pc' = "engine"
                /\ UNCHANGED exc
           ELSE /\ pc' = "crashed"
                /\ exc' = r.exc
                /\ UNCHANGED <<cosine_sim, indices>>
    /\ UNCHANGED <<csv, movie_data, user_input, recommendations, movie_indices, output>>

\* lines 124-129: random.sample(list(movie_data['title'].dropna()), 5) raises
\* ValueError when there are fewer than 5 titles; the sample is only printed
Suggest ==
    /\ pc = "engine"
    /\ IF Len(movie_data.v) < SampleSize
       THEN /\ pc' = "crashed"
            /\ exc' = "ValueError"
            /\ UNCHANGED output
       ELSE /\ pc' = "loop"
            /\ output' = "Type 'quit' or 'exit' to end the chat."
            /\ UNCHANGED exc
    /\ UNCHANGED <<csv, movie_data, cosine_sim, indices, user_input, recommendations,
                   movie_indices>>

\* Prompt with a get_recommendations that remembers a title it resolved through
\* the case-insensitive scan by adding it to the title index
Prompt_Memoizing ==
    /\ pc = "loop"
    /\ \E line \in Lines : \E typed \in {StrStrip(line)} :
          /\ user_input' = Some(typed)
          /\ IF StrLower(typed) \in {Quit, Exit}
             THEN /\ pc' = "done"
                  /\ output' = "Thanks for chatting! Enjoy your movie night!"
                  /\ UNCHANGED <<exc, recommendations, movie_indices, indices>>
             ELSE IF typed # <<>>
             THEN \E r \in {RecommendationsCall(typed, cosine_sim.v, indices.v,
                                                 movie_data.v)} :
                      IF ~r.ok
                      THEN /\ pc' = "crashed"
                           /\ exc' = r.exc
                           /\ UNCHANGED <<recommendations, movie_indices, output, indices>>
                      ELSE /\ indices' =
                                  IF r.v.ret.t = "list" /\ ~InIndex(typed, indices.v)
                                  THEN Some(Append(indices.v,
                                           [label |-> typed,
                                            value |-> Lookup(ResolvedTitle(typed, indices.v).v,
                                                             indices.v)[1]]))
                                  ELSE indices
                           /\ recommendations' = Some(r.v.ret)
                           /\ movie_indices' = r.v.movie_indices
                           /\ output' = IF r.v.ret.t = "list" THEN "recommendations"
                                                             ELSE "message"
                           /\ UNCHANGED <<pc, exc>>
             ELSE /\ output' = "Please enter a movie title."
                  /\ UNCHANGED <<pc, exc, recommendations, movie_indices, indices>>
    /\ UNCHANGED <<csv, movie_data, cosine_sim>>

\* lines 131-147: one pass of the loop on the typed line
Prompt ==
    /\ pc = "loop"
    /\ \E line \in Lines : \E typed \in {StrStrip(line)} :
          /\ user_input' = Some(typed)
          /\ IF StrLower(typed) \in {Quit, Exit}
             THEN /\ pc' = "done"
                  /\ output' = "Thanks for chatting! Enjoy your movie night!"
                  /\ UNCHANGED <<exc, recommendations, movie_indices>>
             ELSE IF typed # <<>>
             THEN \E r \in {RecommendationsCall(typed, cosine_sim.v, indices.v,
                                                 movie_data.v)} :
                      IF ~r.ok
                      THEN /\ pc' = "crashed"
                           /\ exc' = r.exc
                           /\ UNCHANGED <<recommendations, movie_indices, output>>
                      ELSE /\ recommendations' = Some(r.v.ret)
                           /\ movie_indices' = r.v.movie_indices
                           /\ output' = IF r.v.ret.t = "list" THEN "recommendations"
                                                             ELSE "message"
                           /\ UNCHANGED <<pc, exc>>
             ELSE /\ output' = "Please enter a movie title."
                  /\ UNCHANGED <<pc, exc, recommendations, movie_indices>>
    /\ UNCHANGED <<csv, movie_data, cosine_sim, indices>>

Next == LoadData \/ CreateEngine \/ Suggest \/ Prompt

Spec == Init /\ [][Next]_vars

----------------------------------------------------------------------------
(* What the properties below speak about *)

\* the last step asked get_recommendations for user_input and printed its list
ServedList == pc = "loop" /\ output = "recommendations"

\* the typed line was neither empty nor quit/exit: the step called
\* get_recommendations with it
Queried ==
    /\ ~user_input.none
    /\ user_input.v # <<>>
    /\ StrLower(user_input.v) \notin {Quit, Exit}

\* the rows of the corpus whose title is t
RowsTitled(t) == {r \in 1..Len(movie_data.v) : movie_data.v[r].title = t}

\* the rows of the corpus whose title is t up to letter case
RowsTitledAnyCase(t) ==
    {r \in 1..Len(movie_data.v) : StrLower(movie_data.v[r].title) = StrLower(t)}

\* the least element of a non-empty set of rows
FirstOf(S) == CHOOSE r \in S : \A q \in S : r <= q

\* the row a query for t is about: the first row titled t, or, when no row is
\* titled t, the first row titled t up to case
QueryRow(t) ==
    IF RowsTitled(t) # {} THEN FirstOf(RowsTitled(t)) ELSE FirstOf(RowsTitledAnyCase(t))

\* the similarity of row r to the row the last query was about
ScoreOf(r) == cosine_sim.v[QueryRow(user_input.v)][r]

\* the smaller of two numbers
Min(a, b) == IF a < b THEN a ELSE b

----------------------------------------------------------------------------
(* C1 *)

\* C1: the list get_recommendations returns never contains the row the query
\* resolved to, also when another row has the same score as the query row.
C1_NeverReturnsQueryRow ==
    ServedList =>
        \A k \in 1..Len(movie_indices) : movie_indices[k] # QueryRow(user_input.v)

----------------------------------------------------------------------------
(* C2 *)

\* the positions of the title index whose label is t
EntriesFor(t) == {k \in 1..Len(indices.v) : indices.v[k].label = t}

\* C2: the title index maps each title to exactly one row, the first row of
\* the corpus with that title, and a query for a title that several rows
\* share is answered with a list.
C2_TitleIndexFirstSeenWins ==
    /\ ~indices.none =>
           \A r \in 1..Len(movie_data.v) :
               /\ Cardinality(EntriesFor(movie_data.v[r].title)) = 1
               /\ \A k \in EntriesFor(movie_data.v[r].title) :
                      indices.v[k].value = FirstOf(RowsTitled(movie_data.v[r].title))
    /\ (Queried /\ Cardinality(RowsTitled(user_input.v)) > 1) => ServedList

----------------------------------------------------------------------------
(* C3 *)

\* the files were found and have every column lines 16-35 ask for, so that
\* the run reached the parsing of the fields
ReachedParsing ==
    /\ ~csv.none
    /\ csv.v.found
    /\ csv.v.movies_cols \cap {"id", "movie_id", "tmdbId"} # {}
    /\ csv.v.credits_cols = CreditsCols

\* C3: whatever the raw genres, keywords, cast and crew cells hold, the
\* normalisation raises no error: every record of the table is prepared.
C3_NormalizationNeverRaises ==
    ReachedParsing =>
        /\ ~movie_data.none
        /\ Len(movie_data.v) = Len(csv.v.rows)

----------------------------------------------------------------------------
(* C4 *)

\* no label of the title index equals t, exactly or up to letter case
Unmatched(t) ==
    \A k \in 1..Len(indices.v) : StrLower(indices.v[k].label) # StrLower(t)

----------------------------------------------------------------------------
(* C5 *)

\* C5: a query that equals a stored title, or differs from one only in letter
\* case, always resolves to a row and yields a list: the ranking of the first
\* row with exactly that title, else of the first row with it up to case.
C5_CaseInsensitiveQueryYieldsList ==
    (Queried /\ RowsTitledAnyCase(user_input.v) # {}) =>
        /\ ServedList
        /\ recommendations.v.t = "list"
        /\ \A k \in 1..(Len(movie_indices) - 1) :
               ScoreOf(movie_indices[k]) >= ScoreOf(movie_indices[k + 1])

----------------------------------------------------------------------------
(* C6 *)

\* C6: for a corpus of N rows a resolved query returns exactly min(k, N - 1)
\* titles, k = 10, and with fewer than k + 1 rows it returns all the other
\* rows.
C6_ReturnsAllOtherRows ==
    ServedList =>
        /\ Len(recommendations.v.items)
               = Min(SliceTo - SliceFrom, Len(movie_data.v) - 1)
        /\ Len(movie_data.v) < SliceTo - SliceFrom + 1 =>
               {movie_indices[k] : k \in 1..Len(movie_indices)}
                   = (1..Len(movie_data.v)) \ {QueryRow(user_input.v)}

----------------------------------------------------------------------------
(* C7 *)

\* C7: once the loop runs, no step changes the corpus, the soups, the
\* similarity matrix or the title index, and a query typed again right after
\* it was answered gets the same answer.
C7_QueriesOnlyRead ==
    [][pc = "loop" =>
          /\ csv' = csv
          /\ movie_data' = movie_data
          /\ cosine_sim' = cosine_sim
          /\ indices' = indices
          /\ (output \in {"recommendations", "message"} /\ user_input' = user_input
                 /\ pc' = "loop")
                => (recommendations' = recommendations /\ movie_indices' = movie_indices)]_vars

\* a query resolved through the case-insensitive fallback has been answered
C7_Witness ==
    /\ ServedList
    /\ RowsTitled(user_input.v) = {}
    /\ RowsTitledAnyCase(user_input.v) # {}
    /\ movie_indices # <<>>

----------------------------------------------------------------------------
(* C8 *)

\* the names of the entries of a raw cell that holds a list of {"name": ...}
RawNames(cell) ==
    LET parsed == safe_json_loads(cell).v
    IN  [i \in 1..Len(parsed.items) |-> parsed.items[i].d.name.s]

\* no space and no capital letter
IsNormalized(token) ==
    \A i \in 1..Len(token) :
        token[i] # " " /\ ~(\E u \in 1..Len(UpperChars) : UpperChars[u] = token[i])

\* C8: the soup of a record is the single-space join of its keywords, its
\* cast, its director and its genres, in this order; the cast are the first
\* three entries of the raw record in their order; every token is lowercase
\* without spaces; equal normalised records have equal soups.
C8_SoupIsOrderedJoin ==
    ~movie_data.none =>
        \A r \in 1..Len(movie_data.v) :
            LET row == movie_data.v[r]
                raw == csv.v.rows[r]
            IN  /\ row.soup.s =
                       JoinSpace(<<JoinSpace(StrsOf(row.keywords)),
                                   JoinSpace(StrsOf(row.cast)),
                                   row.director.s,
                                   JoinSpace(StrsOf(row.genres))>>)
                /\ Len(row.cast.items) <= CastTop
                /\ (raw.cast.k = "text" /\ raw.cast.form \in {"json", "pyrepr"}
                      /\ raw.cast.val.t = "list") =>
                       /\ Len(row.cast.items) = Min(CastTop, Len(raw.cast.val.items))
                       /\ \A i \in 1..Len(row.cast.items) :
                              row.cast.items[i].s
                                  = RemoveSpaces(StrLower(RawNames(raw.cast)[i]))
                /\ (raw.keywords.k = "text" /\ raw.keywords.form \in {"json", "pyrepr"}
                      /\ raw.keywords.val.t = "list") =>
                       StrsOf(row.keywords)
                           = [i \in 1..Len(raw.keywords.val.items) |->
                                 RemoveSpaces(StrLower(RawNames(raw.keywords)[i]))]
                /\ \A i \in 1..Len(row.keywords.items) : IsNormalized(row.keywords.items[i].s)
                /\ \A i \in 1..Len(row.cast.items) : IsNormalized(row.cast.items[i].s)
                /\ \A i \in 1..Len(row.genres.items) : IsNormalized(row.genres.items[i].s)
                /\ IsNormalized(row.director.s)
                /\ \A q \in 1..Len(movie_data.v) :
                       (/\ movie_data.v[q].keywords = row.keywords
                        /\ movie_data.v[q].cast = row.cast
                        /\ movie_data.v[q].director = row.director
                        /\ movie_data.v[q].genres = row.genres)
                           => movie_data.v[q].soup = row.soup

\* a prepared record whose raw cast has more than three entries, with a
\* director and a keyword whose raw names hold capitals and spaces
C8_Witness ==
    /\ ~movie_data.none
    /\ \E r \in 1..Len(movie_data.v) :
           /\ csv.v.rows[r].cast.k = "text"
           /\ csv.v.rows[r].cast.val.t = "list"
           /\ Len(csv.v.rows[r].cast.val.items) > CastTop
           /\ Len(movie_data.v[r].cast.items) = CastTop
           /\ movie_data.v[r].director.s # <<>>
           /\ movie_data.v[r].keywords.items # <<>>
           /\ ~IsNormalized(RawNames(csv.v.rows[r].keywords)[1])

----------------------------------------------------------------------------
(* C9 *)

\* C9: the returned titles are ordered most similar first, rows of equal
\* score in ascending row order, and each title is the one of the corpus row
\* the ranking points to.
C9_RankedMostSimilarFirst ==
    ServedList =>
        /\ Len(recommendations.v.items) = Len(movie_indices)
        /\ \A k \in 1..Len(movie_indices) :
               recommendations.v.items[k] = movie_data.v[movie_indices[k]].title
        /\ \A k \in 1..(Len(movie_indices) - 1) :
               \/ ScoreOf(movie_indices[k]) > ScoreOf(movie_indices[k + 1])
               \/ /\ ScoreOf(movie_indices[k]) = ScoreOf(movie_indices[k + 1])
                  /\ movie_indices[k] < movie_indices[k + 1]

\* a returned list in which the score drops between two neighbours and is the
\* same for two other neighbours
C9_Witness ==
    /\ ServedList
    /\ \E k \in 1..(Len(movie_indices) - 1) :
           ScoreOf(movie_indices[k]) > ScoreOf(movie_indices[k + 1])
    /\ \E k \in 1..(Len(movie_indices) - 1) :
           ScoreOf(movie_indices[k]) = ScoreOf(movie_indices[k + 1])

----------------------------------------------------------------------------
(* C10 *)

\* C10: get_recommendations is not called before the data is loaded and the
\* engine built; when loading fails the chatbot exits without a prompt; an
\* empty line triggers no query; and the loop ends exactly when the stripped,
\* lowercased line is quit or exit.
C10_LoopEndsExactlyOnQuit ==
    /\ ~recommendations.none => (~movie_data.none /\ ~cosine_sim.none /\ ~indices.none)
    /\ ~user_input.none => (~movie_data.none /\ ~cosine_sim.none /\ ~indices.none)
    /\ pc = "exit" => (user_input.none /\ recommendations.none)
    /\ (~user_input.none /\ user_input.v = <<>>) => output = "Please enter a movie title."
    /\ ~user_input.none => (pc # "loop" <=> StrLower(user_input.v) \in {Quit, Exit})

====
